---- MODULE Spec2Model ----
(***************************************************************************)
(* Model of asyncapi/docs.py: the compilation of a Specification into the  *)
(* AsyncAPI document (spec_asjson, set_operation_message, _spec_asjson).   *)
(*                                                                         *)
(* Python objects live in a heap: a sequence of containers addressed by    *)
(* their index.  A dataclass instance, a dict and a list are containers;   *)
(* None, strings, numbers, booleans, enum members, payload types and       *)
(* generated schemas are immutable values stored in place.                 *)
(***************************************************************************)
EXTENDS Integers, Sequences, FiniteSets, TLC

VARIABLES
    heap,                \* the objects: heap[i] is the container with identity i
    spec,                \* the Specification handed to spec_asjson (a reference)
    pc,                  \* position of the running spec_asjson call
    json_spec,           \* local json_spec of the running/last call
    json_spec_messages,  \* local name -> key registry of the running/last call
    idx,                 \* position of the loop at pc (messages or channels)
    error,               \* exception that ended the last call, "" if none
    calls,               \* number of spec_asjson calls made so far
    returned             \* the documents returned so far, oldest first

vars == <<heap, spec, pc, json_spec, json_spec_messages, idx, error, calls,
          returned>>

(***************************************************************************)
(* Bounds of the model.                                                    *)
(***************************************************************************)
MaxServers == 2
MaxMessages == 2
MaxChannels == 2
MaxCalls == 2

(***************************************************************************)
(* Values.                                                                 *)
(***************************************************************************)
None_ == [t |-> "none"]
Str(s) == [t |-> "str", s |-> s]
Num(n) == [t |-> "int", n |-> n]
Bool(b) == [t |-> "bool", b |-> b]
Enum(val) == [t |-> "enum", e |-> val]
Type(p) == [t |-> "type", p |-> p]
Schema(p) == [t |-> "schema", of |-> p]
Ref(i) == [t |-> "ref", r |-> i]

IsRef(v) == v.t = "ref"

Record(cls, fields) == [k |-> "rec", cls |-> cls, f |-> fields]
Dict(items) == [k |-> "dict", cls |-> "dict", f |-> items]
List(items) == [k |-> "list", cls |-> "list", f |-> items]

\* object allocation: the new object gets the next identity
NewObj(h, obj) == [h |-> Append(h, obj), v |-> Ref(Len(h) + 1)]

\* Python truth value of a value
Truthy(h, v) ==
    CASE v.t = "none" -> FALSE
      [] v.t = "str" -> v.s # ""
      [] v.t = "int" -> v.n # 0
      [] v.t = "bool" -> v.b
      [] v.t = "ref" -> h[v.r].k = "rec" \/ Len(h[v.r].f) > 0
      [] OTHER -> TRUE

(***************************************************************************)
(* dict operations on the item sequence <<key, value>> of a dict (or the   *)
(* field sequence of a record); insertion order is kept as Python does.    *)
(***************************************************************************)
Has(f, key) == \E i \in 1..Len(f) : f[i][1] = key
Get(f, key) == f[CHOOSE i \in 1..Len(f) : f[i][1] = key][2]
Put(f, key, val) ==
    IF Has(f, key)
    THEN [i \in 1..Len(f) |-> IF f[i][1] = key THEN <<key, val>> ELSE f[i]]
    ELSE Append(f, <<key, val>>)
Pop(f, key) == SelectSeq(f, LAMBDA e : e[1] # key)
Keys(f) == [i \in 1..Len(f) |-> f[i][1]]
Values(f) == [i \in 1..Len(f) |-> f[i][2]]

\* attribute / item access through a reference
Attr(h, r, name) == Get(h[r.r].f, name)
Items(h, r) == h[r.r].f

(***************************************************************************)
(* Collaborators of docs.py that live in other modules of the package.     *)
(***************************************************************************)
\* asyncapi.specification_v2_0_0.as_camel_case on the field names in use:
\* the first segment is kept, the following ones are capitalized and the
\* underscores removed
as_camel_case(name) ==
    CASE name = "content_type" -> "contentType"
      [] name = "operation_id" -> "operationId"
      [] name = "snake_case_name" -> "snakeCaseName"
      [] OTHER -> name

\* the payload types asyncapi.schema.type_as_jsonschema has no schema for
UnsupportedTypes == {"PBad"}

\* asyncapi.schema.type_as_jsonschema: the schema of a payload type, or an
\* exception for a type it does not support
type_as_jsonschema(payload) ==
    IF payload.p \in UnsupportedTypes
    THEN [err |-> "SchemaGenerationError", v |-> None_]
    ELSE [err |-> "", v |-> Schema(payload.p)]

(***************************************************************************)
(* _spec_asjson (lines 158-186).  Every operator takes the heap and gives  *)
(* back the heap after its allocations together with the value it returns. *)
(***************************************************************************)
RECURSIVE _spec_asjson(_, _)
RECURSIVE DataclassFields(_, _, _, _)
RECURSIVE DictItems(_, _, _, _)
RECURSIVE IterableItems(_, _, _, _)

\* variant of line 169 that tests only `is not None`
KeepFieldNotNone(field_value) == field_value # None_

\* line 169: the field is set unless its serialized value is None or ''
KeepField(field_value) == field_value # None_ /\ field_value # Str("")

\* lines 164-170: the fields of the dataclass, in declaration order, into
\* the dict json_value
DataclassFields(h, fields, i, json_value) ==
    IF i > Len(fields) THEN h
    ELSE LET r == _spec_asjson(h, fields[i][2])
             h2 == IF KeepField(r.v)
                   THEN [r.h EXCEPT ![json_value.r].f =
                            Put(@, as_camel_case(fields[i][1]), r.v)]
                   ELSE r.h
         IN DataclassFields(h2, fields, i + 1, json_value)

\* lines 161-170
SpecAsjsonDataclass(h, generic_value) ==
    LET new == NewObj(h, Dict(<<>>))
    IN [h |-> DataclassFields(new.h, Items(h, generic_value), 1, new.v),
        v |-> new.v]

\* line 173: the items of the dict, all keys kept as they are
DictItems(h, items, i, json_value) ==
    IF i > Len(items) THEN h
    ELSE LET r == _spec_asjson(h, items[i][2])
         IN DictItems([r.h EXCEPT ![json_value.r].f = Put(@, items[i][1], r.v)],
                      items, i + 1, json_value)

\* variant of line 173 that stores the serialized values in the dict it is
\* given and returns that dict
SpecAsjsonDictInPlace(h, generic_value) ==
    [h |-> DictItems(h, Items(h, generic_value), 1, generic_value),
     v |-> generic_value]

\* lines 172-173
SpecAsjsonDict(h, generic_value) ==
    LET new == NewObj(h, Dict(<<>>))
    IN [h |-> DictItems(new.h, Items(h, generic_value), 1, new.v), v |-> new.v]

\* line 178
IterableItems(h, items, i, json_value) ==
    IF i > Len(items) THEN h
    ELSE LET r == _spec_asjson(h, items[i])
         IN IterableItems([r.h EXCEPT ![json_value.r].f = Append(@, r.v)],
                          items, i + 1, json_value)

\* lines 175-178
SpecAsjsonIterable(h, generic_value) ==
    LET new == NewObj(h, List(<<>>))
    IN [h |-> IterableItems(new.h, Items(h, generic_value), 1, new.v),
        v |-> new.v]

\* lines 158-186
_spec_asjson(h, generic_value) ==
    IF IsRef(generic_value) /\ h[generic_value.r].k = "rec"
    THEN SpecAsjsonDataclass(h, generic_value)
    ELSE IF IsRef(generic_value) /\ h[generic_value.r].k = "dict"
    THEN SpecAsjsonDict(h, generic_value)
    ELSE IF IsRef(generic_value) /\ h[generic_value.r].k = "list"
    THEN SpecAsjsonIterable(h, generic_value)
    ELSE IF generic_value.t = "enum"
    THEN [h |-> h, v |-> generic_value.e]
    ELSE [h |-> h, v |-> generic_value]

(***************************************************************************)
(* The Specification trees the builder hands to spec_asjson.  A message is *)
(* described by its name, payload type and content type; an operation is   *)
(* absent, or has no message, or has one.                                  *)
(***************************************************************************)
Msg(name, payload, content_type) ==
    [name |-> name, payload |-> payload, content_type |-> content_type]

\* messages of the components table: two that declare the same name, and
\* one that declares a name and has no payload
ComponentMessages ==
    { Msg(Str("N1"), Type("P1"), Str("application/json")),
      Msg(Str("N1"), Type("P2"), None_),
      Msg(Str("N2"), None_, None_) }

Absent == [present |-> FALSE, message |-> None_]
Op(message) == [present |-> TRUE, message |-> message]
\* the operation's message is the Message object of the first components
\* entry, as when the builder registers the message it also publishes
SharedMessage == [shared |-> TRUE]

Channel(subscribe, publish) == [subscribe |-> subscribe, publish |-> publish]

\* the channels: their subscribe and publish operations
ChannelChoices ==
    { Channel(Op(None_), Absent),
      Channel(Op(Msg(None_, Type("P1"), None_)),
              Op(Msg(Str("N2"), Type("P2"), Str("text/plain")))),
      Channel(Op(Msg(Str("N1"), Type("P1"), Str("application/json"))),
              Op(Msg(Str("N1"), None_, Str("text/plain")))),
      Channel(Op(SharedMessage),
              Op(Msg(None_, None_, Str("application/json")))),
      Channel(Absent, Op(Msg(None_, Type("PBad"), None_))) }

SeqsUpTo(S, n) == UNION {[1..m -> S] : m \in 0..n}

ServerId(i) == "server" \o ToString(i)
ChannelId(i) == "channel" \o ToString(i)
MessageKey(i) == "key" \o ToString(i)

MessageObj(m) ==
    Record("Message", << <<"name", m.name>>,
                         <<"content_type", m.content_type>>,
                         <<"payload", m.payload>> >>)

ServerObj(i) ==
    Record("Server", << <<"name", Str("name-of-" \o ServerId(i))>>,
                        <<"url", Str("localhost")>>,
                        <<"protocol", Enum(Str("kafka"))>>,
                        <<"description", None_>> >>)

RECURSIVE BuildMessages(_, _, _, _)
BuildMessages(h, msgs, i, items) ==
    IF i > Len(msgs) THEN [h |-> h, v |-> items]
    ELSE LET new == NewObj(h, MessageObj(msgs[i]))
         IN BuildMessages(new.h, msgs, i + 1,
                          Append(items, <<MessageKey(i), new.v>>))

RECURSIVE BuildServers(_, _, _, _)
BuildServers(h, n, i, items) ==
    IF i > n THEN [h |-> h, v |-> items]
    ELSE LET new == NewObj(h, ServerObj(i))
         IN BuildServers(new.h, n, i + 1, Append(items, <<ServerId(i), new.v>>))

\* an Operation and its Message; items is the components table
BuildOperation(h, op, items) ==
    IF ~op.present THEN [h |-> h, v |-> None_]
    ELSE IF op.message = None_
    THEN NewObj(h, Record("Operation", << <<"operation_id", Str("op")>>,
                                          <<"message", None_>> >>))
    ELSE LET message ==
                 IF op.message = SharedMessage
                 THEN [h |-> h, v |-> IF items = <<>> THEN None_ ELSE items[1][2]]
                 ELSE NewObj(h, MessageObj(op.message))
         IN NewObj(message.h,
                   Record("Operation", << <<"operation_id", Str("op")>>,
                                          <<"message", message.v>> >>))

RECURSIVE BuildChannels(_, _, _, _, _)
BuildChannels(h, chans, i, acc, items) ==
    IF i > Len(chans) THEN [h |-> h, v |-> acc]
    ELSE LET sub == BuildOperation(h, chans[i].subscribe, items)
             pub == BuildOperation(sub.h, chans[i].publish, items)
             new == NewObj(pub.h,
                        Record("Channel",
                               << <<"name", Str("name-of-" \o ChannelId(i))>>,
                                  <<"subscribe", sub.v>>,
                                  <<"publish", pub.v>> >>))
         IN BuildChannels(new.h, chans, i + 1,
                          Append(acc, <<ChannelId(i), new.v>>), items)

\* components: None, or a Components holding the table of the messages
BuildComponents(h, comps) ==
    IF ~comps.present THEN [h |-> h, v |-> None_, items |-> <<>>]
    ELSE LET messages == BuildMessages(h, comps.messages, 1, <<>>)
             table == NewObj(messages.h, Dict(messages.v))
             new == NewObj(table.h,
                           Record("Components", << <<"messages", table.v>> >>))
         IN [h |-> new.h, v |-> new.v, items |-> messages.v]

BuildSpecification(nservers, comps, chans) ==
    LET components == BuildComponents(<<>>, comps)
        servers == BuildServers(components.h, nservers, 1, <<>>)
        serverTable == NewObj(servers.h, Dict(servers.v))
        channels == BuildChannels(serverTable.h, chans, 1, <<>>,
                                  components.items)
        channelTable == NewObj(channels.h, Dict(channels.v))
    IN NewObj(channelTable.h,
              Record("Specification", << <<"servers", serverTable.v>>,
                                         <<"channels", channelTable.v>>,
                                         <<"components", components.v>> >>))

\* components is None, or holds a table of up to MaxMessages messages
ComponentsChoices ==
    {[present |-> FALSE, messages |-> <<>>]} \cup
    {[present |-> TRUE, messages |-> m] :
        m \in SeqsUpTo(ComponentMessages, MaxMessages)}

\* spec_asjson has not been called yet; the heap holds a Specification with
\* MaxServers servers, up to MaxChannels channels and a components choice
Init ==
    /\ \E comps \in ComponentsChoices,
          chans \in SeqsUpTo(ChannelChoices, MaxChannels) :
            LET built == BuildSpecification(MaxServers, comps, chans)
            IN heap = built.h /\ spec = built.v
    /\ pc = "idle"
    /\ json_spec = None_
    /\ json_spec_messages = <<>>
    /\ idx = 1
    /\ error = ""
    /\ calls = 0
    /\ returned = <<>>

(***************************************************************************)
(* set_operation_message (lines 132-155).                                  *)
(***************************************************************************)
\* variant of line 137 that pops the field name instead of the key
DropContentTypeField(h, message_dict) ==
    [h EXCEPT ![message_dict.r].f = Pop(@, "content_type")]

\* line 137: operation_dict['message'].pop('contentType', None)
DropContentType(h, message_dict) ==
    [h EXCEPT ![message_dict.r].f = Pop(@, "contentType")]

\* lines 146-149: the reference to the components entry stored under key
ReferencePath(key) == "#/components/messages/" \o key

\* lines 139-144: the message has a name the registry knows
HasRegisteredName(h, operation, registry) ==
    /\ Truthy(h, operation)
    /\ Truthy(h, Attr(h, operation, "message"))
    /\ Truthy(h, Attr(h, Attr(h, operation, "message"), "name"))
    /\ Has(registry, Attr(h, Attr(h, operation, "message"), "name").s)

\* line 152: the message has a payload
HasPayload(h, operation) ==
    /\ Truthy(h, operation)
    /\ Truthy(h, Attr(h, operation, "message"))
    /\ Truthy(h, Attr(h, Attr(h, operation, "message"), "payload"))

\* lines 132-155; err is the exception raised, "" when it returns
set_operation_message(h, operation_dict, operation, registry) ==
    IF ~Has(Items(h, operation_dict), "message")
    THEN [h |-> h, err |-> "KeyError"]
    ELSE
    LET message_dict == Get(Items(h, operation_dict), "message")
        h1 == DropContentType(h, message_dict)
    IN  IF HasRegisteredName(h1, operation, registry)
        THEN LET name == Attr(h1, Attr(h1, operation, "message"), "name").s
                 new == NewObj(h1, Dict(<< <<"$ref",
                            Str(ReferencePath(Get(registry, name)))>> >>))
             IN [h |-> [new.h EXCEPT ![operation_dict.r].f =
                                         Put(@, "message", new.v)],
                 err |-> ""]
        ELSE IF HasPayload(h1, operation)
        THEN LET schema == type_as_jsonschema(
                               Attr(h1, Attr(h1, operation, "message"), "payload"))
             IN IF schema.err # ""
                THEN [h |-> h1, err |-> schema.err]
                ELSE [h |-> [h1 EXCEPT ![message_dict.r].f =
                                          Put(@, "payload", schema.v)],
                      err |-> ""]
        ELSE [h |-> h1, err |-> ""]

(***************************************************************************)
(* spec_asjson (lines 91-129), one action per statement group.             *)
(***************************************************************************)
\* lines 93-97
spec_messages_dict(h, s) ==
    IF /\ Truthy(h, Attr(h, s, "components"))
       /\ Truthy(h, Attr(h, Attr(h, s, "components"), "messages"))
    THEN Items(h, Attr(h, Attr(h, s, "components"), "messages"))
    ELSE <<>>

\* lines 91-98: the baseline document and the empty registry
Call ==
    /\ pc \in {"idle", "returned", "raised"}
    /\ calls < MaxCalls
    /\ LET r == _spec_asjson(heap, spec)
       IN /\ heap' = r.h
          /\ json_spec' = r.v
    /\ json_spec_messages' = <<>>
    /\ idx' = 1
    /\ error' = ""
    /\ calls' = calls + 1
    /\ pc' = "messages"
    /\ UNCHANGED <<spec, returned>>

\* variant of lines 102-104 that leaves the serialized payload in place
ExpandPayloadSkipped(h, doc, message_name, schema) == h

\* lines 102-104: the payload of the components entry becomes its schema
ExpandPayload(h, doc, message_name, schema) ==
    LET entry == Get(Items(h, Get(Items(h, Get(Items(h, doc), "components")),
                                  "messages")), message_name)
    IN [h EXCEPT ![entry.r].f = Put(@, "payload", schema)]

\* variant of line 107 that records the name itself as the target
RegisterName(registry, message_name, name) ==
    IF name.t = "str" /\ name.s # "" THEN Put(registry, name.s, name.s)
    ELSE registry

\* lines 106-107
Register(registry, message_name, name) ==
    IF name.t = "str" /\ name.s # "" THEN Put(registry, name.s, message_name)
    ELSE registry

\* lines 100-107: one iteration of the loop over spec_messages_dict
MessagesStep ==
    /\ pc = "messages"
    /\ idx <= Len(spec_messages_dict(heap, spec))
    /\ LET message_name == spec_messages_dict(heap, spec)[idx][1]
           message_type == spec_messages_dict(heap, spec)[idx][2]
           payload == Attr(heap, message_type, "payload")
       IN IF Truthy(heap, payload)
          THEN LET schema == type_as_jsonschema(payload)
               IN IF schema.err # ""
                  THEN /\ pc' = "raised"
                       /\ error' = schema.err
                       /\ UNCHANGED <<heap, json_spec_messages, idx>>
                  ELSE /\ heap' = ExpandPayload(heap, json_spec, message_name,
                                                schema.v)
                       /\ json_spec_messages' =
                              Register(json_spec_messages, message_name,
                                       Attr(heap, message_type, "name"))
                       /\ idx' = idx + 1
                       /\ UNCHANGED <<pc, error>>
          ELSE /\ idx' = idx + 1
               /\ UNCHANGED <<heap, json_spec_messages, pc, error>>
    /\ UNCHANGED <<spec, json_spec, calls, returned>>

\* variant of lines 110 and 115 that pops a key the entries do not have
PopId(f) == Pop(f, "id")

\* lines 110 and 115: entry.pop('name', None)
PopName(f) == Pop(f, "name")

\* lines 109-110: every server entry of the document loses its name
Servers ==
    /\ pc = "messages"
    /\ idx > Len(spec_messages_dict(heap, spec))
    /\ LET servers == Values(Items(heap, Get(Items(heap, json_spec), "servers")))
           ids == {servers[i].r : i \in 1..Len(servers)}
       IN heap' = [i \in 1..Len(heap) |->
                      IF i \in ids THEN [heap[i] EXCEPT !.f = PopName(@)]
                      ELSE heap[i]]
    /\ pc' = "channels"
    /\ idx' = 1
    /\ UNCHANGED <<spec, json_spec, json_spec_messages, error, calls, returned>>

\* variant of lines 112-114 that walks the input channels in reverse
ChannelPairReversed(h, doc, s, i) ==
    [channel_dict |-> Values(Items(h, Get(Items(h, doc), "channels")))[i],
     channel |-> Values(Items(h, Attr(h, s, "channels")))[
                     Len(Items(h, Attr(h, s, "channels"))) + 1 - i]]

\* lines 112-114: the i-th pair of zip(json_spec['channels'].values(),
\* spec.channels.values())
ChannelPair(h, doc, s, i) ==
    [channel_dict |-> Values(Items(h, Get(Items(h, doc), "channels")))[i],
     channel |-> Values(Items(h, Attr(h, s, "channels")))[i]]

ZipLen(h, doc, s) ==
    LET a == Len(Items(h, Get(Items(h, doc), "channels")))
        b == Len(Items(h, Attr(h, s, "channels")))
    IN IF a < b THEN a ELSE b

\* lines 115-127: the body of the loop for one pair
ChannelBody(h, channel_dict, channel, registry) ==
    LET h1 == [h EXCEPT ![channel_dict.r].f = PopName(@)]
        sub == IF Has(Items(h1, channel_dict), "subscribe")
               THEN set_operation_message(h1,
                        Get(Items(h1, channel_dict), "subscribe"),
                        Attr(h1, channel, "subscribe"), registry)
               ELSE [h |-> h1, err |-> ""]
    IN  IF sub.err # "" THEN sub
        ELSE IF Has(Items(sub.h, channel_dict), "publish")
        THEN set_operation_message(sub.h,
                 Get(Items(sub.h, channel_dict), "publish"),
                 Attr(sub.h, channel, "publish"), registry)
        ELSE sub

\* lines 112-127: one iteration of the loop over the channels
ChannelsStep ==
    /\ pc = "channels"
    /\ idx <= ZipLen(heap, json_spec, spec)
    /\ LET pair == ChannelPair(heap, json_spec, spec, idx)
           r == ChannelBody(heap, pair.channel_dict, pair.channel,
                            json_spec_messages)
       IN /\ heap' = r.h
          /\ IF r.err # ""
             THEN pc' = "raised" /\ error' = r.err /\ idx' = idx
             ELSE pc' = pc /\ error' = error /\ idx' = idx + 1
    /\ UNCHANGED <<spec, json_spec, json_spec_messages, calls, returned>>

\* line 129
Return ==
    /\ pc = "channels"
    /\ idx > ZipLen(heap, json_spec, spec)
    /\ pc' = "returned"
    /\ returned' = Append(returned, json_spec)
    /\ UNCHANGED <<heap, spec, json_spec, json_spec_messages, idx, error, calls>>

Next == Call \/ MessagesStep \/ Servers \/ ChannelsStep \/ Return
Spec == Init /\ [][Next]_vars

(***************************************************************************)
(* Reading the input tree and the returned document.                       *)
(***************************************************************************)
\* the value behind v as a tree, references followed
RECURSIVE Val(_, _)
Val(h, v) ==
    IF ~IsRef(v) THEN v
    ELSE IF h[v.r].k = "list"
    THEN [k |-> "list",
          items |-> [i \in 1..Len(h[v.r].f) |-> Val(h, h[v.r].f[i])]]
    ELSE [k |-> h[v.r].k,
          f |-> [i \in 1..Len(h[v.r].f) |->
                    <<h[v.r].f[i][1], Val(h, h[v.r].f[i][2])>>]]

\* the identities of the containers reachable from v
RECURSIVE Reach(_, _)
Reach(h, v) ==
    IF ~IsRef(v) THEN {}
    ELSE {v.r} \cup UNION {Reach(h, IF h[v.r].k = "list" THEN h[v.r].f[i]
                                    ELSE h[v.r].f[i][2]) :
                           i \in 1..Len(h[v.r].f)}

Item(h, r, key) == Get(Items(h, r), key)
OpNames == {"subscribe", "publish"}

InServers == Items(heap, Attr(heap, spec, "servers"))
InChannels == Items(heap, Attr(heap, spec, "channels"))
InMessages == spec_messages_dict(heap, spec)
InOperation(i, o) == Attr(heap, InChannels[i][2], o)
InMessage(i, o) ==
    IF InOperation(i, o) = None_ THEN None_
    ELSE Attr(heap, InOperation(i, o), "message")
InField(i, o, field) ==
    IF InMessage(i, o) = None_ THEN None_ ELSE Attr(heap, InMessage(i, o), field)

OutServers == Items(heap, Item(heap, json_spec, "servers"))
OutChannels == Items(heap, Item(heap, json_spec, "channels"))
OutMessages ==
    IF Has(Items(heap, json_spec), "components")
    THEN Items(heap, Item(heap, Item(heap, json_spec, "components"), "messages"))
    ELSE <<>>
OutOperation(i, o) == Val(heap, Item(heap, OutChannels[i][2], o))
\* the message mapping of a compiled operation
OutMessage(i, o) == Get(OutOperation(i, o).f, "message").f

NonEmpty(v) == v.t = "str" /\ v.s # ""
HasValue(v) == v # None_

\* the names the loop of lines 100-107 comes to record: those of the
\* components entries that have a payload
RecordedNames ==
    {Attr(heap, InMessages[j][2], "name").s :
        j \in {j \in 1..Len(InMessages) :
                 /\ NonEmpty(Attr(heap, InMessages[j][2], "name"))
                 /\ HasValue(Attr(heap, InMessages[j][2], "payload"))}}

\* the names declared in the components table
DeclaredNames ==
    {Attr(heap, InMessages[j][2], "name").s :
        j \in {j \in 1..Len(InMessages) :
                 NonEmpty(Attr(heap, InMessages[j][2], "name"))}}

\* the keys of the components entries that declare the name
KeysNamed(name) ==
    {InMessages[j][1] :
        j \in {j \in 1..Len(InMessages) :
                 Attr(heap, InMessages[j][2], "name") = Str(name)}}

\* the operations of the input's channels: <<channel position, operation>>
InOperations ==
    {<<i, o>> \in (1..Len(InChannels)) \X OpNames : InOperation(i, o) # None_}

\* what lines 161-170 leave of a Message: the fields that are set, in
\* declaration order
BaselineMessage(name, content_type, payload) ==
    SelectSeq(<< <<"name", name>>, <<"contentType", content_type>>,
                 <<"payload", payload>> >>,
              LAMBDA e : e[2] # None_ /\ e[2] # Str(""))

DuplicateNames ==
    \E j1, j2 \in 1..Len(InMessages) :
        /\ j1 # j2
        /\ NonEmpty(Attr(heap, InMessages[j1][2], "name"))
        /\ Attr(heap, InMessages[j1][2], "name") =
               Attr(heap, InMessages[j2][2], "name")

(***************************************************************************)
(* C1  Duplicate detection: when two keys of components/messages hold     *)
(* messages that declare the same non-empty name, spec_asjson returns no   *)
(* document.                                                               *)
(***************************************************************************)
C1_DuplicateDetection ==
    /\ (DuplicateNames /\ pc = "returned") => FALSE
    /\ (DuplicateNames /\ pc = "raised") => error = "DuplicateMessageNameError"

IsReferenceTo(message, keys) ==
    \E key \in keys :
        message = << <<"$ref", Str("#/components/messages/" \o key)>> >>

(***************************************************************************)
(* C2  Reference correctness: in the returned document, an operation whose *)
(* message declares a name that a components entry declares (with or       *)
(* without a payload) has the message {"$ref": "#/components/messages/k"}, *)
(* k a key of an entry of that name, and nothing else.                     *)
(***************************************************************************)
C2_ReferenceCorrectness ==
    pc = "returned" =>
        \A io \in InOperations :
            (/\ NonEmpty(InField(io[1], io[2], "name"))
             /\ InField(io[1], io[2], "name").s \in DeclaredNames)
            => IsReferenceTo(OutMessage(io[1], io[2]),
                             KeysNamed(InField(io[1], io[2], "name").s))

IsAbsentOutcome(i, o) ==
    \/ InMessage(i, o) = None_
    \/ /\ ~HasValue(InField(i, o, "payload"))
       /\ ~(/\ NonEmpty(InField(i, o, "name"))
            /\ InField(i, o, "name").s \in RecordedNames)

BaselineOperation(i, o) ==
    [k |-> "dict",
     f |-> <<<<"operationId", Attr(heap, InOperation(i, o), "operation_id")>>>>
           \o (IF InMessage(i, o) = None_ THEN <<>>
               ELSE << <<"message",
                         [k |-> "dict",
                          f |-> BaselineMessage(InField(i, o, "name"), None_,
                                                None_)]>> >>)]

(***************************************************************************)
(* C3  Absent outcome: an operation that is present with no message, or    *)
(* with a message that has no resolvable name and no payload, lets         *)
(* spec_asjson return, its compiled form being the baseline one without    *)
(* contentType; spec_asjson raises nothing but SchemaGenerationError or    *)
(* DuplicateMessageNameError.                                              *)
(***************************************************************************)
C3_AbsentOutcome ==
    /\ pc = "raised" =>
           error \in {"SchemaGenerationError", "DuplicateMessageNameError"}
    /\ pc = "returned" =>
           \A io \in InOperations :
               IsAbsentOutcome(io[1], io[2])
               => OutOperation(io[1], io[2]) = BaselineOperation(io[1], io[2])

(***************************************************************************)
(* C4  Name stripping: the returned document has the server ids and the    *)
(* channel ids of the input, in the same order, and no entry under them    *)
(* has a `name` key.                                                       *)
(***************************************************************************)
C4_NameStripping ==
    pc = "returned" =>
        /\ Keys(OutServers) = Keys(InServers)
        /\ Keys(OutChannels) = Keys(InChannels)
        /\ \A i \in 1..Len(OutServers) :
               ~Has(Items(heap, OutServers[i][2]), "name")
        /\ \A i \in 1..Len(OutChannels) :
               ~Has(Items(heap, OutChannels[i][2]), "name")

C4_Witness ==
    /\ pc = "returned"
    /\ Len(InChannels) >= 2
    /\ Len(InServers) >= 2
    /\ \A i \in 1..Len(InServers) : NonEmpty(Attr(heap, InServers[i][2], "name"))
    /\ \A i \in 1..Len(InChannels) : NonEmpty(Attr(heap, InChannels[i][2], "name"))

IsFallback(i, o) ==
    /\ HasValue(InField(i, o, "payload"))
    /\ ~(/\ NonEmpty(InField(i, o, "name"))
         /\ InField(i, o, "name").s \in RecordedNames)

(***************************************************************************)
(* C5  Fallback correctness: in the returned document, an operation whose  *)
(* message has a payload and no recorded name has the schema of that very  *)
(* payload under `payload`, and no `$ref`.                                 *)
(***************************************************************************)
C5_FallbackCorrectness ==
    pc = "returned" =>
        \A io \in InOperations :
            IsFallback(io[1], io[2])
            => /\ Has(OutMessage(io[1], io[2]), "payload")
               /\ Get(OutMessage(io[1], io[2]), "payload") =
                      type_as_jsonschema(InField(io[1], io[2], "payload")).v
               /\ ~Has(OutMessage(io[1], io[2]), "$ref")

\* two channels whose fallback payloads differ
C5_Witness ==
    /\ pc = "returned"
    /\ \E a, b \in InOperations :
           /\ a[1] # b[1]
           /\ IsFallback(a[1], a[2]) /\ IsFallback(b[1], b[2])
           /\ InField(a[1], a[2], "payload") # InField(b[1], b[2], "payload")

(***************************************************************************)
(* C8  contentType is never published on an operation: in the returned     *)
(* document no operation's message mapping has a `contentType` key.        *)
(***************************************************************************)
C8_NoContentType ==
    pc = "returned" =>
        \A i \in 1..Len(OutChannels) : \A o \in OpNames :
            Has(Items(heap, OutChannels[i][2]), o)
            => ~Has(OutMessage(i, o), "contentType")

\* the three outcomes, each from a message with a content type
C8_Witness ==
    /\ pc = "returned"
    /\ \E a, b, c \in InOperations :
           /\ \A io \in {a, b, c} : HasValue(InField(io[1], io[2], "content_type"))
           /\ Has(OutMessage(a[1], a[2]), "$ref")
           /\ IsFallback(b[1], b[2])
           /\ InMessage(c[1], c[2]) # None_ /\ IsAbsentOutcome(c[1], c[2])

(***************************************************************************)
(* C9  Components payload expansion: the returned document has the keys of *)
(* components.messages of the input, in order; an entry with a payload has *)
(* its schema under `payload`, an entry without one is the baseline        *)
(* serialization of the message.                                           *)
(***************************************************************************)
C9_ComponentsPayload ==
    pc = "returned" =>
        /\ Keys(OutMessages) = Keys(InMessages)
        /\ \A j \in 1..Len(InMessages) :
            LET m == InMessages[j][2]
                out == Val(heap, OutMessages[j][2]).f
            IN IF HasValue(Attr(heap, m, "payload"))
               THEN out = BaselineMessage(Attr(heap, m, "name"),
                              Attr(heap, m, "content_type"),
                              type_as_jsonschema(Attr(heap, m, "payload")).v)
               ELSE out = BaselineMessage(Attr(heap, m, "name"),
                              Attr(heap, m, "content_type"), None_)

C9_Witness ==
    /\ pc = "returned"
    /\ \E j1, j2 \in 1..Len(InMessages) :
           /\ HasValue(Attr(heap, InMessages[j1][2], "payload"))
           /\ ~HasValue(Attr(heap, InMessages[j2][2], "payload"))

(***************************************************************************)
(* C10  No dangling reference: every `$ref` of an operation's message in   *)
(* the returned document is "#/components/messages/<key>", <key> a key of  *)
(* the document's components.messages whose input message declares the    *)
(* name of the operation's message.                                        *)
(***************************************************************************)
C10_NoDanglingReference ==
    pc = "returned" =>
        \A io \in InOperations :
            (InMessage(io[1], io[2]) # None_ /\ Has(OutMessage(io[1], io[2]), "$ref"))
            => \E j \in 1..Len(OutMessages) :
                   /\ Get(OutMessage(io[1], io[2]), "$ref") =
                          Str("#/components/messages/" \o OutMessages[j][1])
                   /\ InMessages[j][1] = OutMessages[j][1]
                   /\ NonEmpty(InField(io[1], io[2], "name"))
                   /\ Attr(heap, InMessages[j][2], "name") =
                          InField(io[1], io[2], "name")

C10_Witness ==
    /\ pc = "returned"
    /\ \E io \in InOperations :
           /\ InMessage(io[1], io[2]) # None_
           /\ Has(OutMessage(io[1], io[2]), "$ref")
    /\ Len(InMessages) >= 2

(***************************************************************************)
(* _spec_asjson on its own: a dataclass instance whose fields hold the     *)
(* kinds of value _spec_asjson tells apart.                                *)
(***************************************************************************)
MaxFields == 2

TreeRecord(fields) == [k |-> "rec", f |-> fields]
TreeDict(items) == [k |-> "dict", f |-> items]
TreeList(items) == [k |-> "list", items |-> items]

\* a field value, whether line 169 omits its key, and its serialized form
Case(input, omitted, output) ==
    [input |-> input, omitted |-> omitted, output |-> output]

FieldCases ==
    { Case(None_, TRUE, None_),
      Case(Str(""), TRUE, None_),
      Case(Enum(None_), TRUE, None_),
      Case(Enum(Str("")), TRUE, None_),
      Case(Str("text"), FALSE, Str("text")),
      Case(Num(0), FALSE, Num(0)),
      Case(Bool(FALSE), FALSE, Bool(FALSE)),
      Case(Enum(Str("kafka")), FALSE, Str("kafka")),
      Case(TreeList(<<>>), FALSE, TreeList(<<>>)),
      Case(TreeDict(<<>>), FALSE, TreeDict(<<>>)),
      Case(TreeList(<<None_, Str(""), Enum(Num(0))>>), FALSE,
           TreeList(<<None_, Str(""), Num(0)>>)),
      Case(TreeDict(<< <<"content_type", None_>>, <<"b", Str("")>> >>), FALSE,
           TreeDict(<< <<"content_type", None_>>, <<"b", Str("")>> >>)),
      Case(TreeRecord(<< <<"name", None_>>, <<"content_type", Str("")>> >>),
           FALSE, TreeDict(<<>>)),
      Case(TreeRecord(<< <<"operation_id", Num(0)>>, <<"name", Str("")>>,
                         <<"content_type", Bool(FALSE)>> >>),
           FALSE,
           TreeDict(<< <<"operationId", Num(0)>>,
                       <<"contentType", Bool(FALSE)>> >>)) }

FieldNames == <<"snake_case_name", "name", "content_type", "operation_id">>

\* the objects of a tree, put on the heap
RECURSIVE Load(_, _)
RECURSIVE LoadItems(_, _, _, _, _)
LoadItems(h, kind, items, i, acc) ==
    IF i > Len(items) THEN [h |-> h, v |-> acc]
    ELSE LET r == Load(h, IF kind = "list" THEN items[i] ELSE items[i][2])
         IN LoadItems(r.h, kind, items, i + 1,
                      Append(acc, IF kind = "list" THEN r.v
                                  ELSE <<items[i][1], r.v>>))

Load(h, tree) ==
    IF "k" \notin DOMAIN tree THEN [h |-> h, v |-> tree]
    ELSE LET items == LoadItems(h, tree.k,
                                IF tree.k = "list" THEN tree.items ELSE tree.f,
                                1, <<>>)
         IN NewObj(items.h,
                   [k |-> tree.k,
                    cls |-> IF tree.k = "rec" THEN "Sample" ELSE tree.k,
                    f |-> items.v])

InitSer ==
    /\ \E n \in 0..MaxFields : \E cases \in [1..n -> FieldCases] :
          LET built == Load(<<>>, TreeRecord([i \in 1..n |->
                                    <<FieldNames[i], cases[i].input>>]))
          IN heap = built.h /\ spec = built.v
    /\ pc = "idle"
    /\ json_spec = None_
    /\ json_spec_messages = <<>>
    /\ idx = 1
    /\ error = ""
    /\ calls = 0
    /\ returned = <<>>

\* _spec_asjson(generic_value) for the dataclass instance
Serialize ==
    /\ pc = "idle"
    /\ LET r == _spec_asjson(heap, spec)
       IN /\ heap' = r.h
          /\ json_spec' = r.v
    /\ pc' = "serialized"
    /\ UNCHANGED <<spec, json_spec_messages, idx, error, calls, returned>>

NextSer == Serialize

SpecSer == InitSer /\ [][NextSer]_vars

CaseOf(tree) == CHOOSE c \in FieldCases : c.input = tree

SerFieldNames(i) ==
    CASE i = 1 -> "snakeCaseName"
      [] i = 2 -> "name"
      [] i = 3 -> "contentType"
      [] i = 4 -> "operationId"

(***************************************************************************)
(* C6  Omission law: the mapping _spec_asjson makes of a record has the    *)
(* camelCased key of a field exactly when the serialized value of the      *)
(* field is neither null nor the empty string; 0, false, an empty sequence *)
(* and an empty mapping are kept, with their value, in field order.        *)
(***************************************************************************)
C6_OmissionLaw ==
    pc = "serialized" =>
        LET fields == Val(heap, spec).f
            out == Val(heap, json_spec).f
            kept == {i \in 1..Len(fields) : ~CaseOf(fields[i][2]).omitted}
        IN /\ \A i \in 1..Len(fields) :
                  Has(out, SerFieldNames(i)) <=> i \in kept
           /\ \A i \in kept :
                  Get(out, SerFieldNames(i)) = CaseOf(fields[i][2]).output
           /\ \A a, b \in 1..Len(out) :
                  a < b => \E i, j \in kept :
                               /\ i < j
                               /\ out[a][1] = SerFieldNames(i)
                               /\ out[b][1] = SerFieldNames(j)

\* a record with an omitted field and with a kept field whose value is
\* false in a condition
C6_Witness ==
    /\ pc = "serialized"
    /\ \E i, j \in 1..Len(Val(heap, spec).f) :
           /\ Val(heap, spec).f[i][2] \in {Str(""), Enum(None_)}
           /\ Val(heap, spec).f[j][2] \in
                  {Num(0), Bool(FALSE), TreeList(<<>>), TreeDict(<<>>)}

InputUnchanged == \A i \in Reach(heap, spec) : heap'[i] = heap[i]

OutputIsFresh ==
    pc = "returned" => Reach(heap, json_spec) \cap Reach(heap, spec) = {}

SameDocuments ==
    \A a, b \in 1..Len(returned) :
        Val(heap, returned[a]) = Val(heap, returned[b])

(***************************************************************************)
(* C7  Input is read-only: no step of spec_asjson changes a container of   *)
(* the Specification tree, whether the call returns or raises; no          *)
(* container of a returned document is one of the input; and all the       *)
(* documents returned for the Specification are equal.                     *)
(***************************************************************************)
C7_InputReadOnly ==
    /\ [][InputUnchanged]_vars
    /\ [](OutputIsFresh /\ SameDocuments)

\* a second document returned for a Specification whose operation shares
\* its Message object with the components table, after names and content
\* types were removed and a message replaced in the output
C7_Witness ==
    /\ pc = "returned"
    /\ Len(returned) = 2
    /\ \E io \in InOperations :
           /\ InMessage(io[1], io[2]) # None_
           /\ \E j \in 1..Len(InMessages) : InMessages[j][2] = InMessage(io[1], io[2])
           /\ HasValue(InField(io[1], io[2], "content_type"))
           /\ Has(OutMessage(io[1], io[2]), "$ref")
====
